---- MODULE Spec2Model ----
(***************************************************************************)
(* rs-git-msg: the commit message generator (src/src/commit.rs), the       *)
(* provider factory (src/src/ai/provider_factory.rs), the three providers  *)
(* (src/src/ai/ollama.rs, openai.rs, gemini.rs) and main (src/src/main.rs).*)
(*                                                                         *)
(* A Rust String is a sequence of characters; a character is a one-letter  *)
(* TLA+ string.  Fixed texts that the code never inspects (error messages, *)
(* URLs, model names) are whole TLA+ strings.                              *)
(***************************************************************************)
EXTENDS Naturals, Sequences, FiniteSets

VARIABLES pc, count, request, reply, outcome, result, trace, calls,
          fpc, config, provider,
          mpc, args, ending, events, printed, last_commit_titles,
          ppc, prov, ncalls, wire, call, poutcome, plog,
          mock, mock_calls, prompts, results

vars == <<pc, count, request, reply, outcome, result, trace, calls,
          fpc, config, provider,
          mpc, args, ending, events, printed, last_commit_titles,
          ppc, prov, ncalls, wire, call, poutcome, plog,
          mock, mock_calls, prompts, results>>

genVars == <<pc, count, request, reply, outcome, result, trace, calls>>

facVars == <<fpc, config, provider>>

mainVars == <<mpc, args, ending, events, printed, last_commit_titles>>

provVars == <<ppc, prov, ncalls, wire, call, poutcome, plog>>

mockVars == <<mock, mock_calls, prompts, results>>

(***************************************************************************)
(* Bounds of the model.                                                    *)
(***************************************************************************)
\* the greatest requested count (count: u8) a run is started with
MaxCount == 3

\* the greatest number of lines in a provider's reply
MaxLines == 3

\* the greatest number of calls of generate_text on one mock
MaxMockCalls == 3

(***************************************************************************)
(* Characters and strings.                                                 *)
(***************************************************************************)
\* char::is_whitespace, on the characters of the model
Whitespace == {" ", "\t", "\r", "\n"}

\* char::is_ascii_digit
AsciiDigit == {"0", "1", "2", "3", "4", "5", "6", "7", "8", "9"}

\* char::is_numeric: Unicode Nd, Nl and No; "sup2" stands for U+00B2, which
\* is numeric and no ASCII digit
Numeric == AsciiDigit \cup {"sup2"}

\* the number of leading characters of s that are in S
LeadingRun(s, S) ==
    CHOOSE n \in 0..Len(s) :
        /\ \A i \in 1..n : s[i] \in S
        /\ n = Len(s) \/ s[n + 1] \notin S

\* the number of trailing characters of s that are in S
TrailingRun(s, S) ==
    CHOOSE n \in 0..Len(s) :
        /\ \A i \in (Len(s) - n + 1)..Len(s) : s[i] \in S
        /\ n = Len(s) \/ s[Len(s) - n] \notin S

\* str::trim_start_matches, for the characters of S
TrimStartMatches(s, S) == SubSeq(s, LeadingRun(s, S) + 1, Len(s))

\* str::trim
Trim(s) ==
    LET t == TrimStartMatches(s, Whitespace)
    IN  SubSeq(t, 1, Len(t) - TrailingRun(t, Whitespace))

\* str::contains with a string pattern
Contains(s, pat) ==
    \E i \in 1..(Len(s) + 1) :
        /\ i + Len(pat) - 1 <= Len(s)
        /\ SubSeq(s, i, i + Len(pat) - 1) = pat

\* a line of str::lines loses the "\r" of a "\r\n" ending
ChompCR(l) ==
    IF Len(l) > 0 /\ l[Len(l)] = "\r" THEN SubSeq(l, 1, Len(l) - 1) ELSE l

RECURSIVE LinesFrom(_, _, _)
\* the lines of s from position start on, the scan being at position i
LinesFrom(s, start, i) ==
    IF i > Len(s)
    THEN IF start > Len(s) THEN <<>> ELSE <<SubSeq(s, start, Len(s))>>
    ELSE IF s[i] = "\n"
         THEN <<ChompCR(SubSeq(s, start, i - 1))>> \o LinesFrom(s, i + 1, i + 1)
         ELSE LinesFrom(s, start, i + 1)

\* str::lines: split at "\n", the final line ending being optional
Lines(s) == LinesFrom(s, 1, 1)

RECURSIVE Join(_)
\* the lines joined by "\n"
Join(ls) ==
    IF ls = <<>> THEN <<>>
    ELSE IF Len(ls) = 1 THEN ls[1]
    ELSE ls[1] \o <<"\n">> \o Join(Tail(ls))

(***************************************************************************)
(* parse_response (src/src/commit.rs:67-131).                              *)
(***************************************************************************)
Colon == <<":">>

\* the type markers of Tier 1
Markers ==
    { <<"f", "e", "a", "t", "(">>,
      <<"f", "i", "x", "(">>,
      <<"d", "o", "c", "s", "(">>,
      <<"s", "t", "y", "l", "e", "(">>,
      <<"r", "e", "f", "a", "c", "t", "o", "r", "(">> }

\* the early return left out
Tier0Returns_Missing(k) == FALSE

\* Tier 0: the early return for a count of 0
Tier0Returns(k) == k = 0

\* the lines trimmed, the empty ones kept
Normalize_KeepsEmpty(response) ==
    LET ls == Lines(response)
    IN  [i \in 1..Len(ls) |-> Trim(ls[i])]

\* the response split into lines, each trimmed, the empty ones dropped
Normalize(response) ==
    LET ls == Lines(response)
        trimmed == [i \in 1..Len(ls) |-> Trim(ls[i])]
    IN  SelectSeq(trimmed, LAMBDA l : l # <<>>)

\* the characters removed from the head of a matched line
PrefixChars == Numeric \cup {".", " ", ")"}

\* the line trimmed, its numbering kept
StripPrefix_TrimOnly(line) == Trim(line)

\* the message pushed for a matched line
StripPrefix(line) == Trim(TrimStartMatches(line, PrefixChars))

\* the Tier 1 condition met by every line with a colon
Tier1Match_AnyColon(line) ==
    \/ Contains(line, Colon)
    \/ \E m \in Markers : Contains(line, m)

\* the condition of the Tier 1 loop
Tier1Match(line) ==
    \/ /\ Len(line) > 0
       /\ line[1] \in Numeric /\ line[1] \in AsciiDigit
       /\ Contains(line, Colon)
    \/ \E m \in Markers : Contains(line, m)

\* the Tier 1 loop: every matching line, stripped
Tier1(lines) ==
    LET hit == SelectSeq(lines, Tier1Match)
    IN  [i \in 1..Len(hit) |-> StripPrefix(hit[i])]

RECURSIVE Tier2From(_, _, _, _)
\* the Tier 2 loop from line i on, with the messages pushed so far
Tier2From(lines, i, messages, k) ==
    IF i > Len(lines) THEN messages
    ELSE IF Contains(lines[i], Colon)
         THEN LET pushed == Append(messages, StripPrefix(lines[i]))
              IN  IF Len(pushed) >= k THEN pushed
                  ELSE Tier2From(lines, i + 1, pushed, k)
         ELSE Tier2From(lines, i + 1, messages, k)

\* the Tier 2 loop left after the first message, whatever k
Tier2_BreaksAtOnce(lines, k) == Tier2From(lines, 1, <<>>, 1)

\* the Tier 2 loop taking the first k lines, with a colon or without
Tier2_FirstLines(lines, k) ==
    [i \in 1..(IF Len(lines) < k THEN Len(lines) ELSE k) |-> StripPrefix(lines[i])]

\* the Tier 2 loop: the lines with a colon, until k messages are held
Tier2(lines, k) == Tier2From(lines, 1, <<>>, k)

\* the Tier 3 block never entered
Tier3Applies_Never(messages, lines) == FALSE

\* the Tier 3 block entered without looking at lines
Tier3Applies_Unguarded(messages, lines) == messages = <<>>

\* the guard of the Tier 3 block
Tier3Applies(messages, lines) == messages = <<>> /\ lines # <<>>

\* the final truncation left out
Truncate_Missing(messages, k) == messages

\* Vec::truncate
Truncate(messages, k) ==
    IF Len(messages) > k THEN SubSeq(messages, 1, k) ELSE messages

\* One run of parse_response: the messages returned, the tiers the run
\* entered, and whether it indexed lines[0] of an empty vector (a panic).
ParseRun(response, k) ==
    IF Tier0Returns(k)
    THEN [messages |-> <<>>, tiers |-> {}, panic |-> FALSE]
    ELSE
      LET lines == Normalize(response)
          m1 == IF k > 1 THEN Tier1(lines) ELSE <<>>
          m2 == IF m1 = <<>> THEN Tier2(lines, k) ELSE m1
          t3 == Tier3Applies(m2, lines)
          m3 == IF t3 /\ lines # <<>> THEN <<StripPrefix(lines[1])>> ELSE m2
      IN  [messages |-> Truncate(m3, k),
           tiers |-> (IF k > 1 THEN {1} ELSE {})
                       \cup (IF m1 = <<>> THEN {2} ELSE {})
                       \cup (IF t3 THEN {3} ELSE {}),
           panic |-> t3 /\ lines = <<>>]

\* the value parse_response returns
parse_response(response, k) == ParseRun(response, k).messages

(***************************************************************************)
(* The replies of a provider.  A reply is written line by line; of each    *)
(* line the model keeps how it was written: the white space before it, its *)
(* numbering, its body, the white space after it, and whether the body was *)
(* written with a colon, with a type marker, and as a conventional commit. *)
(***************************************************************************)
\* a numbered commit line: "1. fix(a): b"
Line1 ==
    [lead |-> <<>>, num |-> <<"1", ".", " ">>,
     body |-> <<"f", "i", "x", "(", "a", ")", ":", " ", "b">>,
     trail |-> <<>>, colon |-> TRUE, marker |-> TRUE, conv |-> TRUE]

\* a numbered commit line, padded, with the N) numbering: " 2) feat(c): d "
Line2 ==
    [lead |-> <<" ">>, num |-> <<"2", ")", " ">>,
     body |-> <<"f", "e", "a", "t", "(", "c", ")", ":", " ", "d">>,
     trail |-> <<" ">>, colon |-> TRUE, marker |-> TRUE, conv |-> TRUE]

\* a commit line with no numbering: "docs(e): f"
Line3 ==
    [lead |-> <<>>, num |-> <<>>,
     body |-> <<"d", "o", "c", "s", "(", "e", ")", ":", " ", "f">>,
     trail |-> <<>>, colon |-> TRUE, marker |-> TRUE, conv |-> TRUE]

\* prose with a colon: "So: g"
Line4 ==
    [lead |-> <<>>, num |-> <<>>,
     body |-> <<"S", "o", ":", " ", "g">>,
     trail |-> <<>>, colon |-> TRUE, marker |-> FALSE, conv |-> FALSE]

\* prose with no colon: "text"
Line5 ==
    [lead |-> <<>>, num |-> <<>>,
     body |-> <<"t", "e", "x", "t">>,
     trail |-> <<>>, colon |-> FALSE, marker |-> FALSE, conv |-> FALSE]

\* a blank line: " "
Line6 ==
    [lead |-> <<" ">>, num |-> <<>>,
     body |-> <<>>,
     trail |-> <<>>, colon |-> FALSE, marker |-> FALSE, conv |-> FALSE]

\* a numbered line with neither colon nor marker: "3. h  i"
Line7 ==
    [lead |-> <<>>, num |-> <<"3", ".", " ">>,
     body |-> <<"h", " ", " ", "i">>,
     trail |-> <<>>, colon |-> FALSE, marker |-> FALSE, conv |-> FALSE]

\* a numbered commit line whose type has no scope, two spaces in its
\* subject: "1. ci: k  l"
Line8 ==
    [lead |-> <<>>, num |-> <<"1", ".", " ">>,
     body |-> <<"c", "i", ":", " ", "k", " ", " ", "l">>,
     trail |-> <<>>, colon |-> TRUE, marker |-> FALSE, conv |-> TRUE]

\* a numbered line with a marker and no colon: "2. fix(a) m"
Line9 ==
    [lead |-> <<>>, num |-> <<"2", ".", " ">>,
     body |-> <<"f", "i", "x", "(", "a", ")", " ", "m">>,
     trail |-> <<>>, colon |-> FALSE, marker |-> TRUE, conv |-> FALSE]

\* a numbering with nothing after it: "1."
Line10 ==
    [lead |-> <<>>, num |-> <<"1", ".">>,
     body |-> <<>>,
     trail |-> <<>>, colon |-> FALSE, marker |-> FALSE, conv |-> FALSE]

LineVocabulary == {Line1, Line2, Line3, Line4, Line5,
                   Line6, Line7, Line8, Line9, Line10}

\* the text of a line, as the provider sends it
LineText(l) == l.lead \o l.num \o l.body \o l.trail

\* the text of a reply: its lines, joined by "\n"
ReplyText(r) == Join([i \in 1..Len(r) |-> LineText(r[i])])

\* the replies of at most MaxLines lines
Replies == UNION {[1..n -> LineVocabulary] : n \in 0..MaxLines}

(***************************************************************************)
(* Option<&str> and Result.                                                *)
(***************************************************************************)
None == [some |-> FALSE, val |-> ""]

Some(v) == [some |-> TRUE, val |-> v]

\* Result<String> of AiProvider::generate_text
TextOk(text) == [ok |-> TRUE, text |-> text, error |-> ""]

TextErr(e) == [ok |-> FALSE, text |-> <<>>, error |-> e]

\* Result<Vec<String>> of generate; "Panic" is an unwinding call
Ok(messages) == [kind |-> "Ok", messages |-> messages, error |-> ""]

Err(e) == [kind |-> "Err", messages |-> <<>>, error |-> e]

Panic == [kind |-> "Panic", messages |-> <<>>, error |-> ""]

NoResult == [kind |-> "None", messages |-> <<>>, error |-> ""]

(***************************************************************************)
(* build_prompt (src/src/commit.rs:29-65).  A prompt is the sequence of    *)
(* the pieces pushed to it.                                                *)
(***************************************************************************)
\* format!("{}", count) of a u8
Decimal(k) ==
    LET digit(d) == <<"0", "1", "2", "3", "4", "5", "6", "7", "8", "9">>[d + 1]
    IN  IF k < 10 THEN digit(k)
        ELSE IF k < 100 THEN digit(k \div 10) \o digit(k % 10)
        ELSE digit(k \div 100) \o digit((k \div 10) % 10) \o digit(k % 10)

\* the code fence, three grave accents (U+0060), written with apostrophes
Fence == "'''"

\* the section of the instructions, left out for an empty instruction
ContextSection_SkipsEmpty(additional_instructions) ==
    IF additional_instructions.some /\ additional_instructions.val # ""
    THEN <<"Additional context: ", additional_instructions.val, "\n\n">>
    ELSE <<>>

\* the section of the instructions: pushed if let Some(instructions)
ContextSection(additional_instructions) ==
    IF additional_instructions.some
    THEN <<"Additional context: ", additional_instructions.val, "\n\n">>
    ELSE <<>>

\* the closing instruction, asking for one message whatever the count
ClosingInstruction_OneMessage(k) ==
    <<"Provide exactly ", Decimal(1),
      " commit message(s) in the format 'type(scope): subject', numbered if more than one.">>

\* the closing instruction
ClosingInstruction(k) ==
    <<"Provide exactly ", Decimal(k),
      " commit message(s) in the format 'type(scope): subject', numbered if more than one.">>

build_prompt(diff, branch_name, k, additional_instructions) ==
    <<"Generate ", Decimal(k), " commit message(s) for the following changes.\n\n",
      "Follow the Conventional Commits specification (https://www.conventionalcommits.org/):\n",
      "- Format: type(scope): subject\n",
      "- Types: feat, fix, docs, style, refactor, perf, test, build, ci, chore, revert\n",
      "- Keep the subject concise (under 72 characters)\n",
      "- Use imperative mood (\"add\" not \"added\")\n\n",
      "Branch name: ", branch_name, "\n\n">>
    \o ContextSection(additional_instructions)
    \o <<"Diff:\n", Fence, "\n", diff, "\n", Fence, "\n\n">>
    \o ClosingInstruction(k)

(***************************************************************************)
(* generate (src/src/commit.rs:14-27).                                     *)
(***************************************************************************)
\* the errors a provider returns
ProviderErrors == {"provider error", "Connection to Ollama failed: timed out"}

\* the requests of the runs
Diffs == {"+fn new_function() {}"}

Branches == {"main"}

Instructions == {None, Some("be brief")}

Counts == 0..MaxCount

\* the requests build_prompt is called with
PromptDiffs == {"+fn new_function() {}", "+line one\n-line two", ""}

PromptBranches == {"main", "feature/login", "Additional context: "}

PromptInstructions == {None, Some(""), Some("be brief"), Some("Fix issue #123")}

\* the provider's error taken for an empty response
generate_SwallowsError(res, k) ==
    LET run == ParseRun(res.text, k)
    IN  IF run.panic THEN Panic ELSE Ok(run.messages)

\* what generate returns once generate_text has returned res
generate(res, k) ==
    IF ~res.ok THEN Err(res.error)
    ELSE LET run == ParseRun(res.text, k)
         IN  IF run.panic THEN Panic ELSE Ok(run.messages)

\* what the run of generate did with parse_response
ParseTrace(res, k) ==
    IF ~res.ok THEN [parsed |-> FALSE, tiers |-> {}]
    ELSE [parsed |-> TRUE, tiers |-> ParseRun(res.text, k).tiers]

NoTrace == [parsed |-> FALSE, tiers |-> {}]

(***************************************************************************)
(* create_provider (src/src/ai/provider_factory.rs:6-26).                  *)
(***************************************************************************)
\* enum Provider
ProviderTypes == {"Ollama", "OpenAI", "Gemini"}

\* the default taken whatever the option holds
unwrap_or_AlwaysDefault(opt, default) == default

\* Option::unwrap_or
unwrap_or(opt, default) == IF opt.some THEN opt.val ELSE default

\* Ok(Box::new(<backend>Provider::new(..))): the fields the provider holds
Created(backend, base_url, model, api_key, verbose) ==
    [kind |-> "Ok", error |-> "", backend |-> backend, base_url |-> base_url,
     model |-> model, api_key |-> api_key, verbose |-> verbose]

\* Err(anyhow!(..))
Refused(e) ==
    [kind |-> "Err", error |-> e, backend |-> "", base_url |-> "",
     model |-> "", api_key |-> None, verbose |-> FALSE]

\* the match has no arm for the variant: nothing is built for it
NoArm ==
    [kind |-> "NoArm", error |-> "", backend |-> "", base_url |-> "",
     model |-> "", api_key |-> None, verbose |-> FALSE]

NotCreated ==
    [kind |-> "None", error |-> "", backend |-> "", base_url |-> "",
     model |-> "", api_key |-> None, verbose |-> FALSE]

create_provider(provider_type, model, api_key, api_url, verbose) ==
    CASE provider_type = "Ollama" ->
           Created("Ollama", unwrap_or(api_url, "http://localhost:11434"),
                   model, None, verbose)
      [] provider_type = "OpenAI" ->
           IF ~api_key.some THEN Refused("API key is required for OpenAI")
           ELSE Created("OpenAI", unwrap_or(api_url, "https://api.openai.com/v1"),
                        model, api_key, verbose)
      [] OTHER -> NoArm

\* the arguments of the calls
ModelNames == {"llama3", "gpt-4"}

ApiKeys == {None, Some(""), Some("test-api-key")}

ApiUrls == {None, Some("http://test-url:11434"), Some("https://test-openai-url")}

\* create_provider is called
CreateProvider ==
    /\ fpc = "start"
    /\ \E provider_type \in ProviderTypes, model \in ModelNames, api_key \in ApiKeys,
          api_url \in ApiUrls, verbose \in BOOLEAN :
          /\ config' = [provider_type |-> provider_type, model |-> model,
                        api_key |-> api_key, api_url |-> api_url, verbose |-> verbose]
          /\ provider' = create_provider(provider_type, model, api_key, api_url, verbose)
    /\ fpc' = "created"
    /\ UNCHANGED <<genVars, mainVars, provVars, mockVars>>

NextFactory == CreateProvider

(***************************************************************************)
(* serde_json::Value.  A value is a record of its type t and, by type, its *)
(* string s, its items a or its members o (key k, value v).  A number      *)
(* holds its digits in s.  "absent" is the None of Option<&Value>.         *)
(***************************************************************************)
JNull == [t |-> "null", s |-> "", a |-> <<>>, o |-> <<>>]

JBool(b) == [t |-> "bool", s |-> IF b THEN "true" ELSE "false", a |-> <<>>, o |-> <<>>]

JNum(digits) == [t |-> "num", s |-> digits, a |-> <<>>, o |-> <<>>]

JStr(x) == [t |-> "str", s |-> x, a |-> <<>>, o |-> <<>>]

JArr(items) == [t |-> "arr", s |-> "", a |-> items, o |-> <<>>]

JObj(members) == [t |-> "obj", s |-> "", a |-> <<>>, o |-> members]

\* a member of an object
Member(key, value) == [k |-> key, v |-> value]

Absent == [t |-> "absent", s |-> "", a |-> <<>>, o |-> <<>>]

\* Value::get with a string index: a member of an object, None otherwise
get(value, key) ==
    LET hits == SelectSeq(value.o, LAMBDA m : m.k = key)
    IN  IF value.t = "obj" /\ hits # <<>> THEN hits[Len(hits)].v ELSE Absent

\* Value::as_array, Value::as_object: the value if it has the type
as_array(value) == IF value.t = "arr" THEN value ELSE Absent

as_object(value) == IF value.t = "obj" THEN value ELSE Absent

\* <[Value]>::first
first(value) == IF value.t = "arr" /\ value.a # <<>> THEN value.a[1] ELSE Absent

\* Value::as_str
as_str(value) == IF value.t = "str" THEN Some(value.s) ELSE None

RECURSIVE JoinPieces(_, _)
\* the texts joined, sep between them
JoinPieces(texts, sep) ==
    IF texts = <<>> THEN <<>>
    ELSE IF Len(texts) = 1 THEN texts[1]
    ELSE texts[1] \o <<sep>> \o JoinPieces(Tail(texts), sep)

RECURSIVE to_string(_)
\* Display of a Value: the compact JSON text, as a sequence of pieces
to_string(value) ==
    CASE value.t = "str" -> <<"\"", value.s, "\"">>
      [] value.t = "arr" ->
           <<"[">> \o JoinPieces([i \in 1..Len(value.a) |-> to_string(value.a[i])], ",")
                   \o <<"]">>
      [] value.t = "obj" ->
           <<"{">> \o JoinPieces([i \in 1..Len(value.o) |->
                                     <<"\"", value.o[i].k, "\"", ":">>
                                        \o to_string(value.o[i].v)], ",")
                   \o <<"}">>
      [] value.t = "null" -> <<"null">>
      [] OTHER -> <<value.s>>

(***************************************************************************)
(* The bodies of the backends' responses.                                  *)
(***************************************************************************)
\* {"choices":[{"message":{"content":c}}]}
ChatReply(c) ==
    JObj(<<Member("choices",
                  JArr(<<JObj(<<Member("message", JObj(<<Member("content", c)>>))>>)>>))>>)

\* {"candidates":[{"content":{"parts":parts}}]}
GenerativeReply(parts) ==
    JObj(<<Member("candidates",
                  JArr(<<JObj(<<Member("content", JObj(<<Member("parts", JArr(parts))>>))>>)>>))>>)

\* {"error":{"message":"Invalid API key"}}
ErrorObject == JObj(<<Member("message", JStr("Invalid API key"))>>)

\* the JSON documents a backend answers with; the members of an object are
\* written in the order of their keys
JsonDocs ==
    { ChatReply(JStr("feat(a): b")),
      ChatReply(JNull),
      JObj(<<Member("choices", JArr(<<JObj(<<Member("message",
                 JObj(<<Member("content", JStr("fix(a): b"))>>))>>)>>)),
             Member("error", ErrorObject)>>),
      JObj(<<Member("choices", JArr(<<>>)), Member("error", ErrorObject)>>),
      JObj(<<Member("choices", JArr(<<>>))>>),
      JObj(<<Member("choices", JStr("none"))>>),
      JObj(<<Member("error", ErrorObject)>>),
      JObj(<<Member("error", JObj(<<Member("code", JNum("400"))>>))>>),
      JObj(<<Member("error", JStr("model not found"))>>),
      JObj(<<Member("error", JNull)>>),
      GenerativeReply(<<JObj(<<Member("text", JStr("docs(e): f"))>>)>>),
      GenerativeReply(<<JObj(<<Member("text", JStr("docs(e): f"))>>),
                        JObj(<<Member("text", JStr("more"))>>)>>),
      GenerativeReply(<<>>),
      GenerativeReply(<<JObj(<<Member("text", JNum("1"))>>)>>),
      JObj(<<Member("candidates", JArr(<<JObj(<<Member("content",
                 JObj(<<Member("parts", JArr(<<JObj(<<Member("text", JStr("t"))>>)>>))>>))>>)>>)),
             Member("error", ErrorObject)>>),
      JObj(<<Member("candidates", JArr(<<>>))>>),
      JObj(<<Member("response", JStr("feat: x"))>>),
      JObj(<<Member("error", JStr("model not found")),
             Member("response", JStr("feat: x"))>>),
      JObj(<<Member("error", JStr("model not found")),
             Member("message", JObj(<<Member("content", JStr("c"))>>))>>),
      JObj(<<Member("message", JObj(<<Member("content", JStr("c"))>>))>>),
      JObj(<<Member("message", JObj(<<Member("content", JStr("c"))>>)),
             Member("response", JNum("1"))>>),
      JObj(<<Member("message", JStr("c"))>>),
      JObj(<<Member("done", JBool(TRUE))>>),
      JObj(<<>>),
      JStr("feat: x"),
      JArr(<<JStr("feat: x")>>),
      JNull }

\* the bodies that are no JSON text, each with the error of serde_json
NonJsonBodies ==
    { [text |-> <<>>, error |-> "EOF while parsing a value at line 1 column 0"],
      [text |-> <<"<html>Bad Gateway</html>">>,
       error |-> "expected value at line 1 column 1"] }

\* the bodies of the responses: the text sent, and the document it was
\* written from (none for a text that is no JSON)
ResponseBodies ==
    {[doc |-> d, text |-> to_string(d)] : d \in JsonDocs}
    \cup {[doc |-> Absent, text |-> b.text] : b \in NonJsonBodies}

\* the HTTP status codes of the responses
Statuses == {200, 401, 500}

\* Result<String> of generate_text, the text and the error as pieces
OkText(text) == [ok |-> TRUE, text |-> text, error |-> <<>>]

ErrText(error) == [ok |-> FALSE, text |-> <<>>, error |-> error]

\* serde_json::from_str: the document the text is the JSON text of
from_str(text) ==
    IF \E d \in JsonDocs : to_string(d) = text
    THEN [ok |-> TRUE, value |-> CHOOSE d \in JsonDocs : to_string(d) = text,
          error |-> ""]
    ELSE [ok |-> FALSE, value |-> Absent,
          error |-> (CHOOSE b \in NonJsonBodies : b.text = text).error]

(***************************************************************************)
(* generate_text of the three providers (src/src/ai/ollama.rs,             *)
(* src/src/ai/openai.rs, src/src/ai/gemini.rs).                            *)
(***************************************************************************)
\* the greatest number of generate_text calls on a provider
MaxCalls == 2

\* the prompts of the calls
PromptTexts == {"prompt A", "prompt B"}

\* the errors of the transport
TransportErrors == {"error sending request", "operation timed out"}

\* OllamaProvider::new, OpenAIProvider::new, GeminiProvider::new
Providers ==
    {Created("Ollama", "http://localhost:11434", "llama3", None, verbose)
        : verbose \in BOOLEAN}
    \cup {Created("OpenAI", "https://api.openai.com/v1", "gpt-4",
                  Some("test-api-key"), verbose) : verbose \in BOOLEAN}
    \cup {Created("Gemini", "https://generativelanguage.googleapis.com",
                  "gemini-2.0-flash-lite", Some("test-api-key"), verbose)
             : verbose \in BOOLEAN}

\* the request of OllamaProvider, streamed when verbose
OllamaRequest_StreamsWhenVerbose(self, prompt) ==
    [url |-> <<self.base_url, "/api/generate">>,
     authorization |-> <<>>,
     json |-> JObj(<<Member("model", JStr(self.model)),
                     Member("prompt", JStr(prompt)),
                     Member("stream", JBool(self.verbose))>>)]

\* the request of OllamaProvider
OllamaRequest(self, prompt) ==
    [url |-> <<self.base_url, "/api/generate">>,
     authorization |-> <<>>,
     json |-> JObj(<<Member("model", JStr(self.model)),
                     Member("prompt", JStr(prompt)),
                     Member("stream", JBool(FALSE))>>)]

\* the request of OpenAIProvider
OpenAIRequest(self, prompt) ==
    [url |-> <<self.base_url, "/chat/completions">>,
     authorization |-> <<"Bearer ", self.api_key.val>>,
     json |-> JObj(<<Member("model", JStr(self.model)),
                     Member("messages", JArr(<<
                        JObj(<<Member("role", JStr("system")),
                               Member("content", JStr(
                                 "You are a helpful assistant that generates git commit messages."))>>),
                        JObj(<<Member("role", JStr("user")),
                               Member("content", JStr(prompt))>>)>>)),
                     Member("temperature", JNum("0.7")),
                     Member("max_tokens", JNum("1000"))>>)]

\* the request of GeminiProvider
GeminiRequest(self, prompt) ==
    [url |-> <<self.base_url, "/v1beta/models/", self.model,
               ":generateContent?key=", self.api_key.val>>,
     authorization |-> <<>>,
     json |-> JObj(<<Member("contents", JArr(<<
                 JObj(<<Member("parts", JArr(<<
                    JObj(<<Member("text", JStr(prompt))>>)>>))>>)>>))>>)]

\* the request generate_text posts
Request(self, prompt) ==
    CASE self.backend = "Ollama" -> OllamaRequest(self, prompt)
      [] self.backend = "OpenAI" -> OpenAIRequest(self, prompt)
      [] self.backend = "Gemini" -> GeminiRequest(self, prompt)

\* what generate_text of OpenAIProvider returns for a parsed body,
\* the error field looked at first
OpenAIExtract_ErrorFirst(json) ==
    LET content == as_str(get(get(first(as_array(get(json, "choices"))),
                                  "message"), "content"))
        message == as_str(get(as_object(get(json, "error")), "message"))
    IN  IF message.some THEN ErrText(<<"OpenAI API error: ", message.val>>)
        ELSE IF content.some THEN OkText(<<content.val>>)
        ELSE ErrText(<<"Failed to parse OpenAI response">>)

\* what generate_text of OpenAIProvider returns for a parsed body
OpenAIExtract(json) ==
    LET content == as_str(get(get(first(as_array(get(json, "choices"))),
                                  "message"), "content"))
        message == as_str(get(as_object(get(json, "error")), "message"))
    IN  IF content.some THEN OkText(<<content.val>>)
        ELSE IF message.some THEN ErrText(<<"OpenAI API error: ", message.val>>)
        ELSE ErrText(<<"Failed to parse OpenAI response">>)

\* what generate_text of GeminiProvider returns for a parsed body,
\* an error that is no object passed over
GeminiExtract_ObjectErrorOnly(json) ==
    LET text == as_str(get(first(as_array(get(get(first(as_array(
                     get(json, "candidates"))), "content"), "parts"))), "text"))
        error == as_object(get(json, "error"))
    IN  IF text.some THEN OkText(<<text.val>>)
        ELSE IF error.t # "absent"
             THEN ErrText(<<"Gemini API error: ">> \o to_string(error))
        ELSE ErrText(<<"Failed to parse Gemini response">>)

\* what generate_text of GeminiProvider returns for a parsed body
GeminiExtract(json) ==
    LET text == as_str(get(first(as_array(get(get(first(as_array(
                     get(json, "candidates"))), "content"), "parts"))), "text"))
        error == get(json, "error")
    IN  IF text.some THEN OkText(<<text.val>>)
        ELSE IF error.t # "absent"
             THEN ErrText(<<"Gemini API error: ">> \o to_string(error))
        ELSE ErrText(<<"Failed to parse Gemini response">>)

\* what generate_text of OllamaProvider returns for a parsed body,
\* a body of no known shape refused
OllamaExtract_NoFallback(json, text) ==
    LET response_text == as_str(get(json, "response"))
        error == as_str(get(json, "error"))
        content == as_str(get(get(json, "message"), "content"))
    IN  IF response_text.some THEN OkText(<<response_text.val>>)
        ELSE IF error.some THEN ErrText(<<"Ollama API error: ", error.val>>)
        ELSE IF content.some THEN OkText(<<content.val>>)
        ELSE ErrText(<<"Failed to parse Ollama response">>)

\* what generate_text of OllamaProvider returns for a parsed body
OllamaExtract(json, text) ==
    LET response_text == as_str(get(json, "response"))
        error == as_str(get(json, "error"))
        content == as_str(get(get(json, "message"), "content"))
    IN  IF response_text.some THEN OkText(<<response_text.val>>)
        ELSE IF error.some THEN ErrText(<<"Ollama API error: ", error.val>>)
        ELSE IF content.some THEN OkText(<<content.val>>)
        ELSE OkText(text)

\* the status of the response makes the call fail when it is no 2xx
StatusFails_NonSuccess(status) == status < 200 \/ status > 299

\* the status of the response is printed and not tested
StatusFails(status) == FALSE

\* what generate_text returns for a response: the body is parsed and the
\* text or the error is taken from it
Respond(self, status, text) ==
    LET parsed == from_str(text)
    IN  IF StatusFails(status) THEN ErrText(<<"HTTP status error">>)
        ELSE IF ~parsed.ok THEN ErrText(<<parsed.error>>)
        ELSE CASE self.backend = "Ollama" -> OllamaExtract(parsed.value, text)
               [] self.backend = "OpenAI" -> OpenAIExtract(parsed.value)
               [] self.backend = "Gemini" -> GeminiExtract(parsed.value)

\* the error of generate_text when send fails
ConnectionError(self, e) == ErrText(<<"Connection to ", self.backend, " failed: ", e>>)

\* the lines generate_text prints before it sends
SendLog(self) ==
    IF self.verbose THEN <<<<"Sending request to ", self.backend, " API...">>>>
    ELSE <<>>

\* the lines generate_text prints when send fails
FailureLog(self, e) ==
    IF self.backend = "Ollama"
    THEN << <<"Failed to connect to Ollama server: ", e>>,
            <<"Make sure Ollama is running on ", self.base_url>> >>
    ELSE << <<"Failed to connect to ", self.backend, " API: ", e>> >>

\* Display of a StatusCode
StatusText(status) ==
    CASE status = 200 -> "200 OK"
      [] status = 401 -> "401 Unauthorized"
      [] status = 500 -> "500 Internal Server Error"

\* the line generate_text prints when the response has come
StatusLog(self, status) ==
    IF self.verbose
    THEN << <<self.backend, " API response status: ", StatusText(status)>> >>
    ELSE <<>>

\* the line generate_text prints when the body is read
BodyLog(self, text) ==
    IF self.verbose THEN << <<"Raw response: ">> \o text >> ELSE <<>>

\* no call made yet
NoCall == [prompt |-> "", status |-> 0, doc |-> Absent, body |-> <<>>, failed |-> ""]

(***************************************************************************)
(* MockProvider (src/src/ai/mock.rs).  A response and an error message are *)
(* sequences of characters; a mock keeps its response, and here also how   *)
(* it was made and what it was given.                                      *)
(***************************************************************************)
\* the prefix generate_text looks for
ErrorPrefix == <<"E", "R", "R", "O", "R", ":">>

\* str::starts_with
StartsWith(s, prefix) ==
    Len(s) >= Len(prefix) /\ SubSeq(s, 1, Len(prefix)) = prefix

\* &s[n..]
SliceFrom(s, n) == SubSeq(s, n + 1, Len(s))

\* the responses given to MockProvider::new: "ok", "", "ERR" and "ERROR:x"
MockResponses ==
    {<<"o", "k">>, <<>>, <<"E", "R", "R">>, ErrorPrefix \o <<"x">>}

\* the messages given to MockProvider::new_with_error: "bad" and ""
MockErrors == {<<"b", "a", "d">>, <<>>}

\* the prompts of the calls
MockPrompts == {"prompt 1", "prompt 2"}

\* no mock is made yet
NoMock == [built |-> FALSE, response |-> <<>>, made |-> "", given |-> <<>>]

\* MockProvider::new
MockProvider_new(response) ==
    [built |-> TRUE, response |-> response, made |-> "new", given |-> response]

\* MockProvider::new_with_error
new_with_error(error_message) ==
    [built |-> TRUE, response |-> ErrorPrefix \o error_message,
     made |-> "new_with_error", given |-> error_message]

\* what generate_text returns, by the response the mock keeps
MockResult(response) ==
    IF StartsWith(response, ErrorPrefix)
    THEN ErrText(SliceFrom(response, 6))
    ELSE OkText(response)

(***************************************************************************)
(* main (src/src/main.rs:61-145).  A run of the program: its arguments and *)
(* environment, what it has called so far (events), the message lines it   *)
(* has printed, and how it ended.                                          *)
(***************************************************************************)
\* Provider::default_model
default_model(provider_type) ==
    CASE provider_type = "Ollama" -> "qwen2.5-coder"
      [] provider_type = "OpenAI" -> "gpt-4o-mini"
      [] provider_type = "Gemini" -> "gemini-2.0-flash-lite"

\* Option::or_else
or_else(opt, other) == IF opt.some THEN opt ELSE other

\* the arguments of a run (struct Args) and RS_GIT_MSG_API_KEY
NoArgs ==
    [numbers |-> 1, verbose |-> FALSE, provider |-> "Ollama", model |-> None,
     api_key |-> None, api_url |-> None, env_api_key |-> None]

\* the values of --number of the runs
Numbers == {0, 1, 2, 5, 6}

\* the credentials of the runs, on the command line and in the environment
FlagKeys == {None, Some("test-api-key")}

EnvKeys == {None, Some("env-api-key")}

\* the values of --model
ModelArgs == {None, Some("gpt-4")}

\* the check of --number with its upper limit alone
NumbersRejected_UpperOnly(numbers) == numbers > 5

\* the condition of the check of --number
NumbersRejected(numbers) == numbers < 1 \/ numbers > 5

\* the staged diff taken for not empty, whatever it is
is_empty_Never(diff) == FALSE

\* String::is_empty
is_empty(diff) == diff = ""

\* what repo.get_last_commit_titles(3).unwrap_or_default() gives
TitleLists == {<<>>, <<"feat: add login">>, <<"feat: add login", "fix: typo">>}

\* the run has not ended
Running == [kind |-> "running", code |-> 0, error |-> <<>>]

\* process::exit(code)
Exited(code) == [kind |-> "exit", code |-> code, error |-> <<>>]

\* main returns Err: the error chain is reported, the exit code is 1
Failed(error) == [kind |-> "Err", code |-> 1, error |-> error]

\* main returns Ok(())
Finished == [kind |-> "Ok", code |-> 0, error |-> <<>>]

\* the run is at a match with no arm for its variant
Stuck == [kind |-> "NoArm", code |-> 0, error |-> <<>>]

\* anyhow::Context::context: the context, then the error it wraps
context(e, text) == <<text>> \o e

\* the replies of the provider of a run
MainReplies == {<<>>, <<Line1>>, <<Line5>>, <<Line1, Line2>>, <<Line4, Line1, Line2>>}

Init ==
    /\ pc = "idle"
    /\ count = 0
    /\ request = [diff |-> "", branch_name |-> "", additional_instructions |-> None]
    /\ reply = <<>>
    /\ outcome = TextErr("")
    /\ result = NoResult
    /\ trace = NoTrace
    /\ calls = <<>>
    /\ fpc = "start"
    /\ config = [provider_type |-> "Ollama", model |-> "", api_key |-> None,
                 api_url |-> None, verbose |-> FALSE]
    /\ provider = NotCreated
    /\ mpc = "start"
    /\ args = NoArgs
    /\ ending = Running
    /\ events = <<>>
    /\ printed = <<>>
    /\ last_commit_titles = <<>>
    /\ ppc = "new"
    /\ prov = NotCreated
    /\ ncalls = 0
    /\ wire = <<>>
    /\ call = NoCall
    /\ poutcome = ErrText(<<>>)
    /\ plog = <<>>
    /\ mock = NoMock
    /\ mock_calls = <<>>
    /\ prompts = <<>>
    /\ results = <<>>

\* generate is called: generate_text is called once for each message asked for
Generate_CallPerCandidate ==
    /\ pc = "idle"
    /\ \E diff \in Diffs, branch_name \in Branches, k \in Counts,
          additional_instructions \in Instructions :
          /\ count' = k
          /\ request' = [diff |-> diff, branch_name |-> branch_name,
                         additional_instructions |-> additional_instructions]
          /\ calls' = [i \in 1..k |-> build_prompt(diff, branch_name, 1,
                                                   additional_instructions)]
    /\ pc' = "awaiting"
    /\ UNCHANGED <<reply, outcome, result, trace, facVars, mainVars, provVars, mockVars>>

\* generate is called: the prompt is built and handed to generate_text
Generate ==
    /\ pc = "idle"
    /\ \E diff \in Diffs, branch_name \in Branches, k \in Counts,
          additional_instructions \in Instructions :
          /\ count' = k
          /\ request' = [diff |-> diff, branch_name |-> branch_name,
                         additional_instructions |-> additional_instructions]
          /\ calls' = Append(calls, build_prompt(diff, branch_name, k,
                                                 additional_instructions))
    /\ pc' = "awaiting"
    /\ UNCHANGED <<reply, outcome, result, trace, facVars, mainVars, provVars, mockVars>>

\* generate_text returns Ok(text): the response is parsed and returned
ProviderOk ==
    /\ pc = "awaiting"
    /\ \E r \in Replies :
          /\ reply' = r
          /\ outcome' = TextOk(ReplyText(r))
    /\ result' = generate(outcome', count)
    /\ trace' = ParseTrace(outcome', count)
    /\ pc' = "done"
    /\ UNCHANGED <<count, request, calls, facVars, mainVars, provVars, mockVars>>

\* generate_text returns Err(e): the ? operator returns it
ProviderErr ==
    /\ pc = "awaiting"
    /\ \E e \in ProviderErrors : outcome' = TextErr(e)
    /\ result' = generate(outcome', count)
    /\ trace' = ParseTrace(outcome', count)
    /\ pc' = "done"
    /\ UNCHANGED <<count, request, reply, calls, facVars, mainVars, provVars, mockVars>>

Next == Generate \/ ProviderOk \/ ProviderErr

Spec == Init /\ [][Next]_vars

\* the calls of the factory alone
SpecFactory == Init /\ [][NextFactory]_vars

\* build_prompt is called with a request
BuildPrompt ==
    /\ pc = "idle"
    /\ \E diff \in PromptDiffs, branch_name \in PromptBranches, k \in Counts,
          additional_instructions \in PromptInstructions :
          /\ count' = k
          /\ request' = [diff |-> diff, branch_name |-> branch_name,
                         additional_instructions |-> additional_instructions]
          /\ calls' = <<build_prompt(diff, branch_name, k, additional_instructions)>>
    /\ pc' = "built"
    /\ UNCHANGED <<reply, outcome, result, trace, facVars, mainVars, provVars, mockVars>>

NextPrompt == BuildPrompt

\* the calls of build_prompt alone
SpecPrompt == Init /\ [][NextPrompt]_vars

(***************************************************************************)
(* The steps of main.                                                      *)
(***************************************************************************)
\* Args::parse, the credential, the check of --number
MainStart ==
    /\ mpc = "start"
    /\ \E numbers \in Numbers, verbose \in BOOLEAN, provider_type \in ProviderTypes,
          model \in ModelArgs, api_key \in FlagKeys, env \in EnvKeys :
          args' = [numbers |-> numbers, verbose |-> verbose, provider |-> provider_type,
                   model |-> model, api_key |-> api_key, api_url |-> None,
                   env_api_key |-> env]
    /\ IF NumbersRejected(args'.numbers)
       THEN mpc' = "ended" /\ ending' = Exited(1)
       ELSE mpc' = "open" /\ ending' = ending
    /\ UNCHANGED <<events, printed, last_commit_titles, genVars, facVars, provVars, mockVars>>

\* git::Repository::open_current_dir
MainOpenRepo ==
    /\ mpc = "open"
    /\ events' = Append(events, "open_current_dir")
    /\ \/ mpc' = "branch" /\ ending' = ending
       \/ mpc' = "ended"
          /\ ending' = Failed(context(<<"git error">>, "Failed to open git repository"))
    /\ UNCHANGED <<args, printed, last_commit_titles, genVars, facVars, provVars, mockVars>>

\* repo.get_branch_name
MainBranchName ==
    /\ mpc = "branch"
    /\ events' = Append(events, "get_branch_name")
    /\ \/ mpc' = "diff" /\ ending' = ending
       \/ mpc' = "ended"
          /\ ending' = Failed(context(<<"git error">>, "Failed to get branch name"))
    /\ UNCHANGED <<args, printed, last_commit_titles, genVars, facVars, provVars, mockVars>>

\* repo.get_staged_diff, and the check of the diff
MainStagedDiff ==
    /\ mpc = "diff"
    /\ events' = Append(events, "get_staged_diff")
    /\ \/ \E diff \in Diffs \cup {""} :
             /\ request' = [request EXCEPT !.diff = diff, !.branch_name = "main"]
             /\ IF is_empty(diff)
                THEN mpc' = "ended" /\ ending' = Exited(1)
                ELSE mpc' = "create" /\ ending' = ending
       \/ /\ request' = request
          /\ mpc' = "ended"
          /\ ending' = Failed(context(<<"git error">>, "Failed to get staged diff"))
    /\ UNCHANGED <<args, printed, last_commit_titles, pc, count, reply, outcome, result, trace, calls,
                   facVars, provVars, mockVars>>

\* create_provider(..)?
MainCreateProvider ==
    /\ mpc = "create"
    /\ events' = Append(events, "create_provider")
    /\ config' = [provider_type |-> args.provider,
                  model |-> IF args.model.some THEN args.model.val
                            ELSE default_model(args.provider),
                  api_key |-> or_else(args.api_key, args.env_api_key),
                  api_url |-> args.api_url, verbose |-> args.verbose]
    /\ provider' = create_provider(config'.provider_type, config'.model,
                                   config'.api_key, config'.api_url, config'.verbose)
    /\ fpc' = "created"
    /\ CASE provider'.kind = "Ok" -> mpc' = "generate" /\ ending' = ending
         [] provider'.kind = "Err" -> mpc' = "ended" /\ ending' = Failed(<<provider'.error>>)
         [] OTHER -> mpc' = "ended" /\ ending' = Stuck
    /\ UNCHANGED <<args, printed, last_commit_titles, genVars, provVars, mockVars>>

\* generator.generate(..): the prompt is built, generate_text is called and
\* the provider sends its request
MainGenerate ==
    /\ mpc = "generate"
    /\ events' = events \o <<"get_last_commit_titles", "generate", "generate_text">>
    /\ last_commit_titles' \in TitleLists
    /\ count' = args.numbers
    /\ calls' = Append(calls, build_prompt(request.diff, request.branch_name,
                                           args.numbers, request.additional_instructions))
    /\ pc' = "awaiting"
    /\ mpc' = "await"
    /\ UNCHANGED <<args, ending, printed, request, reply, outcome, result, trace,
                   facVars, provVars, mockVars>>

\* generate returns: its messages are printed, and a line for its error too
MainGenerated_PrintsOnError ==
    /\ mpc = "await"
    /\ \/ \E r \in MainReplies : reply' = r /\ outcome' = TextOk(ReplyText(r))
       \/ \E e \in ProviderErrors : reply' = reply /\ outcome' = TextErr(e)
    /\ result' = generate(outcome', count)
    /\ trace' = ParseTrace(outcome', count)
    /\ pc' = "done"
    /\ mpc' = "ended"
    /\ CASE result'.kind = "Ok" ->
              /\ printed' = result'.messages
              /\ ending' = Finished
         [] OTHER ->
              /\ printed' = << <<>> >>
              /\ ending' = Failed(context(<<result'.error>>,
                                       "Failed to generate commit message"))
    /\ UNCHANGED <<args, events, last_commit_titles, count, request, calls,
                   facVars, provVars, mockVars>>

\* generate returns: its error ends the run, its messages are printed
MainGenerated ==
    /\ mpc = "await"
    /\ \/ \E r \in MainReplies : reply' = r /\ outcome' = TextOk(ReplyText(r))
       \/ \E e \in ProviderErrors : reply' = reply /\ outcome' = TextErr(e)
    /\ result' = generate(outcome', count)
    /\ trace' = ParseTrace(outcome', count)
    /\ pc' = "done"
    /\ mpc' = "ended"
    /\ CASE result'.kind = "Ok" ->
              /\ printed' = result'.messages
              /\ ending' = Finished
         [] result'.kind = "Err" ->
              /\ printed' = printed
              /\ ending' = Failed(context(<<result'.error>>,
                                       "Failed to generate commit message"))
         [] OTHER ->
              /\ printed' = printed
              /\ ending' = [kind |-> "Panic", code |-> 101, error |-> <<>>]
    /\ UNCHANGED <<args, events, last_commit_titles, count, request, calls,
                   facVars, provVars, mockVars>>

NextMain ==
    \/ MainStart \/ MainOpenRepo \/ MainBranchName \/ MainStagedDiff
    \/ MainCreateProvider \/ MainGenerate \/ MainGenerated

\* the runs of the program
SpecMain == Init /\ [][NextMain]_vars

(***************************************************************************)
(* The steps of generate_text.                                             *)
(***************************************************************************)
\* a provider is built
NewProvider ==
    /\ ppc = "new"
    /\ prov' \in Providers
    /\ ppc' = "ready"
    /\ UNCHANGED <<ncalls, wire, call, poutcome, plog, genVars, facVars, mainVars, mockVars>>

\* generate_text is called: the request is built and sent
CallGenerateText ==
    /\ ppc = "ready"
    /\ ncalls < MaxCalls
    /\ \E prompt \in PromptTexts :
          /\ call' = [NoCall EXCEPT !.prompt = prompt]
          /\ wire' = Append(wire, Request(prov, prompt))
    /\ ncalls' = ncalls + 1
    /\ plog' = SendLog(prov)
    /\ poutcome' = ErrText(<<>>)
    /\ ppc' = "sent"
    /\ UNCHANGED <<prov, genVars, facVars, mainVars, mockVars>>

\* send fails and the request is sent once more
ConnectionFails_Retries ==
    /\ ppc = "sent"
    /\ Len(wire) = ncalls
    /\ wire' = Append(wire, wire[Len(wire)])
    /\ UNCHANGED <<ppc, prov, ncalls, call, poutcome, plog, genVars, facVars, mainVars, mockVars>>

\* send fails: the error is wrapped and returned
ConnectionFails ==
    /\ ppc = "sent"
    /\ \E e \in TransportErrors :
          /\ call' = [call EXCEPT !.failed = "send"]
          /\ poutcome' = ConnectionError(prov, e)
          /\ plog' = plog \o FailureLog(prov, e)
    /\ ppc' = "ready"
    /\ UNCHANGED <<prov, ncalls, wire, genVars, facVars, mainVars, mockVars>>

\* the response comes and its body cannot be read: the error is returned
ReadFails ==
    /\ ppc = "sent"
    /\ \E status \in Statuses :
          /\ call' = [call EXCEPT !.status = status, !.failed = "read"]
          /\ plog' = plog \o StatusLog(prov, status)
    /\ poutcome' = ErrText(<<"error decoding response body">>)
    /\ ppc' = "ready"
    /\ UNCHANGED <<prov, ncalls, wire, genVars, facVars, mainVars, mockVars>>

\* the response comes and its body is read, parsed and searched
Responds ==
    /\ ppc = "sent"
    /\ \E status \in Statuses, body \in ResponseBodies :
          /\ call' = [call EXCEPT !.status = status, !.doc = body.doc,
                                  !.body = body.text]
          /\ poutcome' = Respond(prov, status, body.text)
          /\ plog' = plog \o StatusLog(prov, status) \o BodyLog(prov, body.text)
    /\ ppc' = "ready"
    /\ UNCHANGED <<prov, ncalls, wire, genVars, facVars, mainVars, mockVars>>

NextProvider ==
    NewProvider \/ CallGenerateText \/ ConnectionFails \/ ReadFails \/ Responds

\* the calls of generate_text on a provider
SpecProvider == Init /\ [][NextProvider]_vars

(***************************************************************************)
(* The calls on a MockProvider.                                            *)
(***************************************************************************)
\* MockProvider::new builds a mock with a response
MockNew ==
    /\ ~mock.built
    /\ \E response \in MockResponses : mock' = MockProvider_new(response)
    /\ UNCHANGED <<mock_calls, prompts, results, genVars, facVars, mainVars, provVars>>

\* MockProvider::new_with_error builds a mock with an error message
MockNewWithError ==
    /\ ~mock.built
    /\ \E error_message \in MockErrors : mock' = new_with_error(error_message)
    /\ UNCHANGED <<mock_calls, prompts, results, genVars, facVars, mainVars, provVars>>

\* the body of generate_text: the prompt is pushed to calls, then the
\* result is returned; via is how the call was made
MockGenerateText(prompt, via) ==
    /\ mock_calls' = Append(mock_calls, prompt)
    /\ results' = Append(results, MockResult(mock.response))
    /\ prompts' = Append(prompts, [prompt |-> prompt, via |-> via])
    /\ UNCHANGED <<mock, genVars, facVars, mainVars, provVars>>

\* generate_text is called on the mock
MockCall ==
    /\ mock.built
    /\ Len(prompts) < MaxMockCalls
    /\ \E prompt \in MockPrompts : MockGenerateText(prompt, "direct")

\* generate_text is called on a Box<dyn AiProvider> that holds the mock
BoxCall ==
    /\ mock.built
    /\ Len(prompts) < MaxMockCalls
    /\ \E prompt \in MockPrompts : MockGenerateText(prompt, "box")

NextMock == MockNew \/ MockNewWithError \/ MockCall \/ BoxCall

\* the calls on a mock
SpecMock == Init /\ [][NextMock]_vars

(***************************************************************************)
(* What a reply was written as, for the statements below.                  *)
(***************************************************************************)
\* a line written as white space alone
IsBlank(l) == l.num = <<>> /\ l.body = <<>>

\* the lines of a reply that are not blank
NonBlank(r) == SelectSeq(r, LAMBDA l : ~IsBlank(l))

\* the bodies of lines, in order
Bodies(ls) == [i \in 1..Len(ls) |-> ls[i].body]

\* a line written with a numbering and a type marker
NumberedMarker(l) == l.num # <<>> /\ l.marker

\* generate has returned after generate_text returned Ok
ParsedDone == pc = "done" /\ outcome.ok

(***************************************************************************)
(* C1.  Truncation law: parse_response(response, k) returns at most k      *)
(* messages, for every response and every k >= 0, whichever tier produced  *)
(* the candidates.                                                         *)
(***************************************************************************)
C1_Truncation ==
    ParsedDone => Len(result.messages) <= count

\* Tier 1 collected three candidates and two were asked for
C1_Witness ==
    /\ ParsedDone /\ count = 2
    /\ trace.tiers = {1}
    /\ Len(reply) = 3 /\ \A i \in 1..3 : reply[i].marker
    /\ Len(result.messages) = 2

(***************************************************************************)
(* C2.  With a requested count of 0 parse_response returns the empty       *)
(* sequence for every response, and enters no tier.                        *)
(***************************************************************************)
C2_ZeroCount ==
    ParsedDone /\ count = 0 => result = Ok(<<>>) /\ trace.tiers = {}

\* a reply full of commit lines, parsed with a count of 0
C2_Witness ==
    /\ ParsedDone /\ count = 0
    /\ Len(reply) = MaxLines /\ \A i \in 1..Len(reply) : reply[i].conv
    /\ result.messages = <<>>

(***************************************************************************)
(* C3.  Fallback law.  As claimed: for every response in which no line has *)
(* a colon or a type marker and some line is not blank, parse_response     *)
(* returns exactly one message, the first non-blank line with its          *)
(* numbering stripped.  This fails for a requested count of 0; it holds    *)
(* for every requested count k >= 1.                                       *)
(***************************************************************************)
\* no line of the reply has a colon or a marker, and some line is not blank
FallbackCase ==
    /\ ParsedDone
    /\ \A i \in 1..Len(reply) : ~reply[i].colon /\ ~reply[i].marker
    /\ NonBlank(reply) # <<>>

\* the claim as stated, for every requested count
C3_Original ==
    FallbackCase => result = Ok(<<NonBlank(reply)[1].body>>)

C3_Fallback ==
    FallbackCase /\ count >= 1 => result = Ok(<<NonBlank(reply)[1].body>>)

\* a blank line, then a numbered line without colon or marker: Tier 3 strips
\* the numbering of the second
C3_Witness ==
    /\ FallbackCase /\ count = 2
    /\ Len(reply) = 2 /\ IsBlank(reply[1]) /\ reply[2].num # <<>> /\ reply[2].body # <<>>
    /\ 3 \in trace.tiers
    /\ result.messages = <<reply[2].body>>

(***************************************************************************)
(* C4.  For every response and every requested count k >= 1: if the        *)
(* response has at least k numbered lines ("N." or "N)") with a type        *)
(* marker, parse_response returns exactly k messages, the first k of those *)
(* numbered lines in their order, numbering stripped, also when the        *)
(* response has preamble or trailing prose lines.                          *)
(***************************************************************************)
C4_NumberedLines ==
    LET offered == SelectSeq(reply, NumberedMarker)
    IN  ParsedDone /\ count >= 1 /\ Len(offered) >= count
            => result = Ok(Bodies(SubSeq(offered, 1, count)))

(***************************************************************************)
(* C5.  For every response that is a single well-formed conventional       *)
(* commit line, optionally surrounded by white space and optionally        *)
(* numbered "N." or "N)", parse_response with a count of 1 returns exactly *)
(* one message: the line trimmed, the numbering removed, the rest as       *)
(* written.                                                                *)
(***************************************************************************)
\* one line of the reply is a conventional commit line, the others are blank
SingleCommitLine ==
    /\ ParsedDone
    /\ Len(NonBlank(reply)) = 1
    /\ NonBlank(reply)[1].conv

C5_SingleLine ==
    SingleCommitLine /\ count = 1 => result = Ok(<<NonBlank(reply)[1].body>>)

\* the reply is one padded commit line numbered "2)"
C5_Witness ==
    /\ SingleCommitLine /\ count = 1
    /\ Len(reply) = 1 /\ reply[1].lead # <<>> /\ reply[1].trail # <<>>
    /\ reply[1].num = <<"2", ")", " ">>
    /\ result.messages = <<reply[1].body>>

(***************************************************************************)
(* C6.  Idempotence.  As claimed: for every clean message sequence (each   *)
(* message trimmed, not empty, with no numbering, one per line) of length  *)
(* n, parse_response of the lines joined by "\n" with a count of n returns *)
(* the same sequence; and parsing the joined output of                     *)
(* parse_response(r, k) again with the same k returns that output.         *)
(* This fails: with n >= 2, Tier 1 keeps only the lines with a marker, and *)
(* a sequence with no colon at all comes back as its first line.  It holds *)
(* for the clean sequences that are uniform: n = 1, or every message has a *)
(* type marker, or no message has a marker and every message has a colon;  *)
(* and for the outputs that are such sequences.                            *)
(***************************************************************************)
\* a line written clean: no white space around it, no numbering, a body
CleanLine(l) == l.lead = <<>> /\ l.num = <<>> /\ l.trail = <<>> /\ l.body # <<>>

\* the reply is a clean message sequence and as many messages are asked for
CleanCase ==
    /\ ParsedDone
    /\ Len(reply) >= 1 /\ count = Len(reply)
    /\ \A i \in 1..Len(reply) : CleanLine(reply[i])

\* the clean reply is uniform
UniformReply ==
    \/ Len(reply) = 1
    \/ \A i \in 1..Len(reply) : reply[i].marker
    \/ \A i \in 1..Len(reply) : ~reply[i].marker /\ reply[i].colon

\* a returned message is clean: not empty, trimmed, no numbering character first
CleanMessage(m) ==
    /\ m # <<>>
    /\ m[1] \notin PrefixChars \cup Whitespace
    /\ m[Len(m)] \notin Whitespace

HasMarker(m) == \E k \in Markers : Contains(m, k)

\* the returned messages are a clean, uniform sequence
UniformOutput(ms) ==
    /\ \A i \in 1..Len(ms) : CleanMessage(ms[i])
    /\ \/ Len(ms) <= 1
       \/ \A i \in 1..Len(ms) : HasMarker(ms[i])
       \/ \A i \in 1..Len(ms) : ~HasMarker(ms[i]) /\ Contains(ms[i], Colon)

\* the claim as stated
C6_Original ==
    /\ CleanCase => result = Ok(Bodies(reply))
    /\ ParsedDone => parse_response(Join(result.messages), count) = result.messages

C6_Idempotence ==
    /\ CleanCase /\ UniformReply => result = Ok(Bodies(reply))
    /\ ParsedDone /\ UniformOutput(result.messages)
          => parse_response(Join(result.messages), count) = result.messages

\* two clean messages with a colon and no marker, parsed with a count of 2
\* by Tier 2, and parsed again to the same
C6_Witness ==
    /\ CleanCase /\ UniformReply /\ count = 2
    /\ \A i \in 1..2 : ~reply[i].marker
    /\ trace.tiers = {1, 2}
    /\ result.messages = Bodies(reply)
    /\ UniformOutput(result.messages)

(***************************************************************************)
(* C7.  parse_response is total: for every response and every count it     *)
(* returns a sequence and never panics, and once generate_text has         *)
(* returned Ok(text), generate returns Ok for every text; malformed output *)
(* gives fewer messages or none.                                           *)
(***************************************************************************)
C7_Total ==
    ParsedDone =>
        /\ result.kind = "Ok"
        /\ ~ParseRun(outcome.text, count).panic
        /\ Len(result.messages) <= Len(NonBlank(reply))

\* a reply of blank lines alone, for which one message was asked: Ok, none
C7_Witness ==
    /\ ParsedDone /\ count >= 1
    /\ Len(reply) >= 1 /\ NonBlank(reply) = <<>>
    /\ result = Ok(<<>>)

(***************************************************************************)
(* C8.  For every response with no non-blank line (the empty string, or    *)
(* white space and newlines alone) and every requested count,              *)
(* parse_response returns the empty sequence: Tier 3 does not make up a     *)
(* message when there is no normalized line.                               *)
(***************************************************************************)
C8_BlankResponse ==
    ParsedDone /\ NonBlank(reply) = <<>> => result = Ok(<<>>) /\ 3 \notin trace.tiers

\* two blank lines, two messages asked for, none returned
C8_Witness ==
    /\ ParsedDone /\ count = 2
    /\ Len(reply) = 2 /\ NonBlank(reply) = <<>>
    /\ trace.tiers = {1, 2}
    /\ result.messages = <<>>

(***************************************************************************)
(* C9.  If generate_text returns an error, generate returns that error     *)
(* (the same message) and no messages: parse_response is not run, and no   *)
(* partial result is returned.                                             *)
(***************************************************************************)
C9_ErrorPropagation ==
    pc = "done" /\ ~outcome.ok =>
        /\ result = Err(outcome.error)
        /\ ~trace.parsed

\* the provider failed and generate returned its error
C9_Witness ==
    /\ pc = "done" /\ ~outcome.ok
    /\ count >= 1
    /\ result.kind = "Err" /\ result.error = "provider error"

(***************************************************************************)
(* C10.  create_provider for each hosted variant (OpenAI and Gemini)       *)
(* returns an "API key is required" error when no credential is given, and *)
(* a provider when one is given, whose base_url is the backend's public    *)
(* endpoint when api_url is unset; each of the three variants is handled   *)
(* by the factory.                                                         *)
(***************************************************************************)
C10_HostedVariants ==
    fpc = "created" =>
        /\ provider.kind \in {"Ok", "Err"}
        /\ config.provider_type \in {"OpenAI", "Gemini"} =>
              /\ ~config.api_key.some =>
                    /\ provider.kind = "Err"
                    /\ provider.error \in {"API key is required for OpenAI",
                                           "API key is required for Gemini"}
              /\ config.api_key.some =>
                    /\ provider.kind = "Ok"
                    /\ provider.backend = config.provider_type
                    /\ config.api_url.some => provider.base_url = config.api_url.val
                    /\ config.provider_type = "OpenAI" /\ ~config.api_url.some
                          => provider.base_url = "https://api.openai.com/v1"

(***************************************************************************)
(* C11.  No hosted provider holds an empty credential: create_provider for *)
(* OpenAI or Gemini rejects an api_key that is absent or the empty string  *)
(* (it builds no provider for it), while an Ollama provider is built       *)
(* whatever the api_key.                                                   *)
(***************************************************************************)
C11_NonEmptyCredential ==
    fpc = "created" =>
        /\ config.provider_type \in {"OpenAI", "Gemini"}
              /\ (~config.api_key.some \/ config.api_key.val = "")
              => provider.kind # "Ok"
        /\ provider.kind = "Ok" /\ provider.backend \in {"OpenAI", "Gemini"}
              => provider.api_key.some /\ provider.api_key.val # ""
        /\ config.provider_type = "Ollama" => provider.kind = "Ok"

(***************************************************************************)
(* C12.  create_provider for Ollama succeeds for every model, with or      *)
(* without a credential and with or without api_url; the base URL is       *)
(* http://localhost:11434 when api_url is unset, and the supplied URL      *)
(* otherwise.                                                              *)
(***************************************************************************)
C12_LocalInference ==
    fpc = "created" /\ config.provider_type = "Ollama" =>
        /\ provider.kind = "Ok"
        /\ provider.backend = "Ollama"
        /\ provider.model = config.model
        /\ provider.base_url = IF config.api_url.some THEN config.api_url.val
                               ELSE "http://localhost:11434"

\* an Ollama provider built with a credential and a URL of its own
C12_Witness ==
    /\ fpc = "created" /\ config.provider_type = "Ollama"
    /\ config.api_key.some /\ config.api_url = Some("http://test-url:11434")
    /\ provider.kind = "Ok" /\ provider.base_url = "http://test-url:11434"

(***************************************************************************)
(* What a run of main did, for the statements below.                       *)
(***************************************************************************)
\* the run has made the call e
Occurs(e) == \E i \in 1..Len(events) : events[i] = e

\* a hosted variant is selected and neither --api-key nor RS_GIT_MSG_API_KEY
\* gives a credential
HostedNoCredential ==
    /\ mpc # "start"
    /\ args.provider \in {"OpenAI", "Gemini"}
    /\ ~args.api_key.some /\ ~args.env_api_key.some

(***************************************************************************)
(* C13.  In every run where a hosted variant is selected and no credential *)
(* is available from --api-key or RS_GIT_MSG_API_KEY, no provider call     *)
(* (and so no outbound HTTP request) is ever made, and the run, once it    *)
(* has come to the construction of the provider, ends there with the       *)
(* configuration error; create_provider itself makes no request, whatever  *)
(* the variant.                                                            *)
(***************************************************************************)
C13_ConfigError ==
    /\ HostedNoCredential => ~Occurs("generate_text")
    /\ HostedNoCredential /\ Occurs("create_provider") =>
          /\ mpc = "ended"
          /\ ending \in {Failed(<<"API key is required for OpenAI">>),
                         Failed(<<"API key is required for Gemini">>)}
    /\ \A i \in 1..Len(events) :
          events[i] = "generate_text" => i > 1 /\ events[i - 1] = "generate"

(***************************************************************************)
(* What a call of generate_text did, for the statements below.  A path     *)
(* into a document is a sequence of steps, each the key of a member or the *)
(* index of an item.                                                       *)
(***************************************************************************)
Key(key) == [isKey |-> TRUE, key |-> key, index |-> 0]

Index(i) == [isKey |-> FALSE, key |-> "", index |-> i]

RECURSIVE At(_, _)
\* the value at the path in the document, Absent if there is none
At(doc, path) ==
    IF path = <<>> THEN doc
    ELSE LET step == Head(path)
             here ==
               IF step.isKey
               THEN IF doc.t = "obj" /\ \E i \in 1..Len(doc.o) : doc.o[i].k = step.key
                    THEN doc.o[CHOOSE i \in 1..Len(doc.o) : doc.o[i].k = step.key].v
                    ELSE Absent
               ELSE IF doc.t = "arr" /\ step.index < Len(doc.a)
                    THEN doc.a[step.index + 1]
                    ELSE Absent
         IN  At(here, Tail(path))

IsString(value) == value.t = "str"

\* the last call of generate_text has returned
CallDone == ppc = "ready" /\ ncalls > 0

\* the last call has returned after reading the body of a response
Answered == CallDone /\ call.failed = ""

\* the last call has returned after reading a body that is a JSON text
AnsweredJson(backend) == Answered /\ prov.backend = backend /\ call.doc # Absent

(***************************************************************************)
(* C14.  OpenAI response extraction, for every JSON body: if               *)
(* choices[0].message.content is a string, it is returned as the text      *)
(* (also when there is an error field); else if error.message is a string, *)
(* the call fails with "OpenAI API error: " followed by that message; else *)
(* the call fails with "Failed to parse OpenAI response".  The raw body is *)
(* never returned.                                                         *)
(***************************************************************************)
C14_HostedChat ==
    AnsweredJson("OpenAI") =>
        LET content == At(call.doc, <<Key("choices"), Index(0), Key("message"),
                                      Key("content")>>)
            message == At(call.doc, <<Key("error"), Key("message")>>)
        IN  /\ IsString(content) => poutcome = OkText(<<content.s>>)
            /\ ~IsString(content) /\ IsString(message)
                  => poutcome = ErrText(<<"OpenAI API error: ", message.s>>)
            /\ ~IsString(content) /\ ~IsString(message)
                  => poutcome = ErrText(<<"Failed to parse OpenAI response">>)
            /\ poutcome.ok => poutcome.text # call.body

\* the body {"error":{"message":"Invalid API key"}}, sent with status 401
C14_Witness ==
    /\ AnsweredJson("OpenAI")
    /\ call.status = 401
    /\ call.body = <<"{", "\"", "error", "\"", ":", "{", "\"", "message", "\"", ":",
                     "\"", "Invalid API key", "\"", "}", "}">>
    /\ poutcome = ErrText(<<"OpenAI API error: ", "Invalid API key">>)

(***************************************************************************)
(* C15.  Gemini response extraction, for every JSON body: if               *)
(* candidates[0].content.parts[0].text is a string, it is returned as the  *)
(* text; else if there is an error field, of any JSON type, the call fails *)
(* with "Gemini API error: " followed by the JSON text of that value; else *)
(* the call fails with "Failed to parse Gemini response".  The raw body is *)
(* never returned.                                                         *)
(***************************************************************************)
C15_HostedGenerative ==
    AnsweredJson("Gemini") =>
        LET text == At(call.doc, <<Key("candidates"), Index(0), Key("content"),
                                   Key("parts"), Index(0), Key("text")>>)
            error == At(call.doc, <<Key("error")>>)
        IN  /\ IsString(text) => poutcome = OkText(<<text.s>>)
            /\ ~IsString(text) /\ error # Absent
                  => poutcome = ErrText(<<"Gemini API error: ">> \o to_string(error))
            /\ ~IsString(text) /\ error = Absent
                  => poutcome = ErrText(<<"Failed to parse Gemini response">>)
            /\ poutcome.ok => poutcome.text # call.body

\* the body {"error":"model not found"}: the error is a string, and is
\* reported as JSON text, in quotes
C15_Witness ==
    /\ AnsweredJson("Gemini")
    /\ call.doc = JObj(<<Member("error", JStr("model not found"))>>)
    /\ poutcome = ErrText(<<"Gemini API error: ", "\"", "model not found", "\"">>)

(***************************************************************************)
(* C16.  Ollama response extraction, for every JSON body, in this order: a *)
(* string field response is returned; else a string field error fails the  *)
(* call with "Ollama API error: " and the error; else a string              *)
(* message.content is returned; else the raw body is returned as it is.    *)
(* So for a JSON body the call fails in the error case alone.              *)
(***************************************************************************)
C16_LocalInference ==
    AnsweredJson("Ollama") =>
        LET response == At(call.doc, <<Key("response")>>)
            error == At(call.doc, <<Key("error")>>)
            content == At(call.doc, <<Key("message"), Key("content")>>)
        IN  /\ IsString(response) => poutcome = OkText(<<response.s>>)
            /\ ~IsString(response) /\ IsString(error)
                  => poutcome = ErrText(<<"Ollama API error: ", error.s>>)
            /\ ~IsString(response) /\ ~IsString(error) /\ IsString(content)
                  => poutcome = OkText(<<content.s>>)
            /\ ~IsString(response) /\ ~IsString(error) /\ ~IsString(content)
                  => poutcome = OkText(call.body)
            /\ ~poutcome.ok => ~IsString(response) /\ IsString(error)

\* the body {"done":true} has none of the fields: it is returned as it is
C16_Witness ==
    /\ AnsweredJson("Ollama")
    /\ call.body = <<"{", "\"", "done", "\"", ":", "true", "}">>
    /\ poutcome = OkText(call.body)

(***************************************************************************)
(* C17.  For each of the three backends, every call of generate_text sends *)
(* exactly one HTTP request, whatever its outcome: a transport failure, a  *)
(* body that is no JSON, an error payload or an unparseable response ends  *)
(* the call with an error, and no second request follows.                  *)
(***************************************************************************)
C17_OneRequest ==
    /\ ppc \in {"sent", "ready"} => Len(wire) = ncalls
    /\ ppc = "sent" \/ CallDone => wire[ncalls] = Request(prov, call.prompt)
    /\ CallDone /\ (call.failed # "" \/ call.doc = Absent) => ~poutcome.ok
    /\ AnsweredJson("OpenAI") /\ At(call.doc, <<Key("choices")>>) = Absent
          => ~poutcome.ok
    /\ AnsweredJson("Gemini") /\ At(call.doc, <<Key("candidates")>>) = Absent
          => ~poutcome.ok

\* the second call on a provider has failed at the transport: two requests
\* were sent in all, one for each call
C17_Witness ==
    /\ CallDone /\ ncalls = 2
    /\ call.failed = "send" /\ ~poutcome.ok
    /\ Len(wire) = 2

(***************************************************************************)
(* C18.  For every backend, the outcome of generate_text is decided by the *)
(* body of the response alone: responses with the same body and different  *)
(* status codes give the same outcome, and a status that is no 2xx with a  *)
(* known content field is returned as success.                             *)
(***************************************************************************)
C18_StatusIgnored ==
    Answered =>
        \A status \in Statuses : Respond(prov, status, call.body) = poutcome

\* a response with status 500 whose body has the content field
C18_Witness ==
    /\ Answered /\ call.status = 500
    /\ poutcome.ok /\ poutcome.text # call.body

(***************************************************************************)
(* C19.  The verbose flag changes what is printed and nothing else: for    *)
(* every provider, prompt and reply, the provider that differs in verbose  *)
(* alone sends the same request and returns the same text or the same      *)
(* error (the messages generate returns are a function of that result).    *)
(***************************************************************************)
C19_VerboseObservational ==
    LET other == [prov EXCEPT !.verbose = ~prov.verbose]
    IN  /\ ppc = "sent" \/ CallDone => Request(other, call.prompt) = wire[ncalls]
        /\ Answered => Respond(other, call.status, call.body) = poutcome
        /\ CallDone /\ call.failed = "send" =>
              \E e \in TransportErrors : /\ ConnectionError(prov, e) = poutcome
                                         /\ ConnectionError(other, e) = poutcome

\* a verbose provider has printed its three lines and returned a text
C19_Witness ==
    /\ Answered /\ prov.verbose /\ Len(plog) = 3
    /\ poutcome.ok

(***************************************************************************)
(* C20.  Every call of generate calls generate_text exactly once, whatever *)
(* the requested count (one call gives all the candidates), and hands it   *)
(* exactly the prompt build_prompt makes of the request; the prompt is     *)
(* built first, then comes the one call, then the parse, which starts only *)
(* once the call has returned Ok.                                          *)
(***************************************************************************)
C20_SingleCall ==
    /\ pc = "idle" => calls = <<>>
    /\ pc \in {"awaiting", "done"} =>
          calls = <<build_prompt(request.diff, request.branch_name, count,
                                 request.additional_instructions)>>
    /\ pc = "awaiting" => ~trace.parsed /\ result = NoResult
    /\ pc = "done" => (trace.parsed <=> outcome.ok)

\* three messages were asked for with an instruction, and came from one call
C20_Witness ==
    /\ pc = "done" /\ count = 3 /\ outcome.ok
    /\ request.additional_instructions.some
    /\ Len(calls) = 1
    /\ Len(result.messages) = 3

(***************************************************************************)
(* What build_prompt made, for the statements below.                       *)
(***************************************************************************)
\* the prompt of the request
Prompt == calls[1]

\* the places of the prompt that hold the piece
Places(piece) == {i \in 1..Len(Prompt) : Prompt[i] = piece}

\* the texts of the request hold the piece themselves
RequestHolds(piece) ==
    \/ request.diff = piece
    \/ request.branch_name = piece
    \/ request.additional_instructions.some /\ request.additional_instructions.val = piece

(***************************************************************************)
(* C21.  build_prompt writes the section "Additional context:              *)
(* {instructions}" and a blank line after it if and only if                *)
(* additional_instructions is present: for every present value as it is,   *)
(* the empty string too; and when additional_instructions is absent the    *)
(* text "Additional context:" is not in the prompt (for requests that do   *)
(* not hold that text themselves).                                         *)
(***************************************************************************)
C21_AdditionalContext ==
    pc = "built" =>
        /\ request.additional_instructions.some =>
              \E i \in Places("Additional context: ") :
                  /\ i + 2 <= Len(Prompt)
                  /\ Prompt[i + 1] = request.additional_instructions.val
                  /\ Prompt[i + 2] = "\n\n"
                  /\ i > 1 /\ Prompt[i - 1] = "\n\n"
        /\ ~request.additional_instructions.some
              /\ ~RequestHolds("Additional context: ")
              => Places("Additional context: ") = {}

\* the instruction is the empty string and the section is written
C21_Witness ==
    /\ pc = "built"
    /\ request.additional_instructions = Some("")
    /\ \E i \in Places("Additional context: ") :
          Prompt[i + 1] = "" /\ Prompt[i + 2] = "\n\n"

(***************************************************************************)
(* C23.  build_prompt is a function of the request alone, and for every    *)
(* request the prompt has its sections in this order: the header "Generate *)
(* {count} commit message(s) for the following changes.", the style        *)
(* guidance, "Branch name: {branch_name}", the optional context section,   *)
(* the diff as it is inside a fenced code block, and the closing "Provide  *)
(* exactly {count} commit message(s) ..."; the header and the closing      *)
(* carry the same count.                                                   *)
(***************************************************************************)
C23_SectionOrder ==
    pc = "built" =>
        LET c == IF request.additional_instructions.some THEN 3 ELSE 0
            n == Len(Prompt)
        IN  /\ n = 21 + c
            /\ SubSeq(Prompt, 1, 3) =
                  <<"Generate ", Decimal(count),
                    " commit message(s) for the following changes.\n\n">>
            /\ Prompt[4] = "Follow the Conventional Commits specification (https://www.conventionalcommits.org/):\n"
            /\ Prompt[8] = "- Use imperative mood (\"add\" not \"added\")\n\n"
            /\ SubSeq(Prompt, 9, 11) = <<"Branch name: ", request.branch_name, "\n\n">>
            /\ c = 3 => Prompt[12] = "Additional context: "
            /\ SubSeq(Prompt, 12 + c, 18 + c) =
                  <<"Diff:\n", Fence, "\n", request.diff, "\n", Fence, "\n\n">>
            /\ Prompt[19 + c] = "Provide exactly "
            /\ Prompt[21 + c] = " commit message(s) in the format 'type(scope): subject', numbered if more than one."
            /\ Prompt[20 + c] = Prompt[2]
            /\ Prompt = build_prompt(request.diff, request.branch_name, count,
                                     request.additional_instructions)

\* three messages asked for, with an instruction and a diff of two lines
C23_Witness ==
    /\ pc = "built" /\ count = 3
    /\ request.additional_instructions = Some("be brief")
    /\ request.diff = "+line one\n-line two"
    /\ Len(Prompt) = 24
    /\ Prompt[2] = "3" /\ Prompt[23] = "3"
    /\ Prompt[18] = request.diff

(***************************************************************************)
(* C22.  When recent_commit_titles is not empty, the prompt sent to the    *)
(* provider holds every title, in the order given, as a section of recent  *)
(* commits; when it is empty there is no such section.                     *)
(***************************************************************************)
C22_RecentCommits ==
    Occurs("generate_text") =>
        LET P == calls[Len(calls)]
            t == last_commit_titles
        IN  /\ \E f \in [1..Len(t) -> 1..Len(P)] :
                  /\ \A j \in 1..Len(t) : P[f[j]] = t[j]
                  /\ \A j \in 1..Len(t) : j > 1 => f[j - 1] < f[j]
            /\ t = <<>> =>
                  Len(P) = 21 + (IF request.additional_instructions.some THEN 3 ELSE 0)

(***************************************************************************)
(* C24.  In every run the generator is called with a requested count in    *)
(* 1..5 only: a --number below 1 or above 5 ends the run with an exit code *)
(* that is not zero, before the repository is opened, before a provider is *)
(* built and before any provider call.                                     *)
(***************************************************************************)
C24_CountRange ==
    /\ mpc # "start" /\ (args.numbers < 1 \/ args.numbers > 5) =>
          /\ mpc = "ended"
          /\ ending.kind = "exit" /\ ending.code # 0
          /\ events = <<>>
          /\ provider = NotCreated
          /\ calls = <<>>
    /\ Occurs("generate") => count \in 1..5 /\ count = args.numbers

\* the run was started with --number 0 and has ended with exit code 1,
\* having called nothing
C24_Witness ==
    /\ mpc = "ended" /\ args.numbers = 0
    /\ ending = Exited(1)
    /\ events = <<>>

(***************************************************************************)
(* C25.  In every run the generator is called with a diff that is not      *)
(* empty: when the staged diff is empty the run exits with a code that is  *)
(* not zero before a provider is built, so no prompt is built and no       *)
(* provider call is made.                                                  *)
(***************************************************************************)
C25_NonEmptyDiff ==
    /\ Occurs("create_provider") => request.diff # ""
    /\ Occurs("generate") => request.diff # ""
    /\ Occurs("get_staged_diff") /\ request.diff = "" =>
          /\ mpc = "ended"
          /\ ending.code # 0
          /\ provider = NotCreated
          /\ calls = <<>>
          /\ ~Occurs("generate_text")

\* the staged diff was read and is empty: the run has ended with exit code 1,
\* the factory not called
C25_Witness ==
    /\ mpc = "ended" /\ ending = Exited(1)
    /\ events = <<"open_current_dir", "get_branch_name", "get_staged_diff">>
    /\ request.diff = "" /\ request.branch_name = "main"
    /\ calls = <<>>

(***************************************************************************)
(* C26.  Every error ends the run: if the construction of the provider or  *)
(* the generation fails, the run ends with one error and an exit code that *)
(* is not zero and prints no message line; message lines are printed only  *)
(* after generate has returned Ok, one line for each message, in order.    *)
(***************************************************************************)
C26_ErrorsTerminal ==
    /\ Occurs("create_provider") /\ provider.kind = "Err" =>
          /\ mpc = "ended"
          /\ ending = Failed(<<provider.error>>) /\ ending.code # 0
          /\ printed = <<>>
          /\ ~Occurs("generate")
    /\ Occurs("generate") /\ pc = "done" /\ result.kind = "Err" =>
          /\ mpc = "ended"
          /\ ending = Failed(<<"Failed to generate commit message", outcome.error>>)
          /\ ending.code # 0
          /\ printed = <<>>
          /\ Len(calls) = 1
    /\ printed # <<>> => mpc = "ended" /\ result.kind = "Ok"
    /\ Occurs("generate") /\ pc = "done" /\ result.kind = "Ok" =>
          /\ printed = result.messages
          /\ ending = Finished

\* the provider call has failed: the run has ended with that error, wrapped,
\* and nothing is printed
C26_Witness ==
    /\ mpc = "ended" /\ Occurs("generate_text")
    /\ ~outcome.ok
    /\ ending = Failed(<<"Failed to generate commit message", "provider error">>)
    /\ printed = <<>>

(***************************************************************************)
(* What the tiers are given, in terms of how the reply was written.        *)
(***************************************************************************)
\* a line written with a numbering and a colon, or with a type marker
Tier1Written(l) == (l.num # <<>> /\ l.colon) \/ l.marker

\* a line written with a colon
ColonWritten(l) == l.colon

\* the first k of the lines, or all of them if there are fewer
FirstOf(ls, k) == SubSeq(ls, 1, IF Len(ls) < k THEN Len(ls) ELSE k)

(***************************************************************************)
(* C27.  Tier 1 result: for a requested count k > 1, let M be the lines    *)
(* that start with an ASCII digit and have a colon, or have one of the     *)
(* type markers.  If M is not empty, parse_response returns the first      *)
(* min(|M|, k) lines of M, in their order, each with its numbering         *)
(* stripped, and no other line gives a message; Tiers 2 and 3 add nothing. *)
(* For k = 1 Tier 1 is not entered.                                        *)
(***************************************************************************)
C27_Tier1 ==
    ParsedDone =>
        LET M == SelectSeq(reply, Tier1Written)
        IN  /\ count > 1 /\ M # <<>> =>
                  /\ result = Ok(Bodies(FirstOf(M, count)))
                  /\ trace.tiers = {1}
            /\ count <= 1 => 1 \notin trace.tiers

\* prose with a colon, a numbered line with a colon and no marker, and a
\* numbered line with neither: of the three the second alone is returned
C27_Witness ==
    /\ ParsedDone /\ count = 2
    /\ Len(reply) = 3
    /\ reply[1].colon /\ reply[1].num = <<>> /\ ~reply[1].marker
    /\ reply[2].colon /\ reply[2].num # <<>> /\ ~reply[2].marker
    /\ ~reply[3].colon /\ reply[3].num # <<>> /\ ~reply[3].marker /\ reply[3].body # <<>>
    /\ result.messages = <<reply[2].body>>

(***************************************************************************)
(* C28.  Tier 2 result: when the requested count k is 1, or k > 1 and no   *)
(* line meets the Tier 1 condition, and some line has a colon,             *)
(* parse_response returns the first min(c, k) lines with a colon, in their *)
(* order (c their number), each with its numbering stripped; the lines     *)
(* with no colon are skipped.                                              *)
(***************************************************************************)
C28_Tier2 ==
    ParsedDone =>
        LET M == SelectSeq(reply, Tier1Written)
            C == SelectSeq(reply, ColonWritten)
        IN  (count = 1 \/ (count > 1 /\ M = <<>>)) /\ C # <<>> =>
                /\ result = Ok(Bodies(FirstOf(C, count)))
                /\ 2 \in trace.tiers /\ 3 \notin trace.tiers

\* one message asked for; the reply is a line with no colon, then two
\* numbered commit lines: the first of the two is returned
C28_Witness ==
    /\ ParsedDone /\ count = 1
    /\ Len(reply) = 3
    /\ ~reply[1].colon /\ reply[1].body # <<>>
    /\ reply[2].colon /\ reply[2].num # <<>>
    /\ reply[3].colon /\ reply[3].body # reply[2].body
    /\ result.messages = <<reply[2].body>>

(***************************************************************************)
(* C29.  Prefix stripping, in every tier: each returned message is its     *)
(* source line without its leading run of digits, ".", ")" and spaces,     *)
(* trimmed, the text after that run as it was; every returned message has  *)
(* no white space at its ends, is not empty and does not begin with a      *)
(* digit, "." or ")".                                                      *)
(***************************************************************************)
C29_PrefixStripping ==
    ParsedDone =>
        \A i \in 1..Len(result.messages) :
            /\ \E j \in 1..Len(reply) :
                  ~IsBlank(reply[j]) /\ result.messages[i] = reply[j].body
            /\ CleanMessage(result.messages[i])

(***************************************************************************)
(* C30.  Call recording of the test double: after any calls of             *)
(* generate_text on a MockProvider, made on it or through a                *)
(* Box<dyn AiProvider>, calls holds one entry for each call, the prompts   *)
(* in the order of the calls; every call on a mock made with an error      *)
(* message returns that message as its error, and every call on a mock     *)
(* made with a response returns that response.                             *)
(***************************************************************************)
C30_CallRecording ==
    mock.built =>
        /\ mock_calls = [i \in 1..Len(prompts) |-> prompts[i].prompt]
        /\ Len(results) = Len(prompts)
        /\ mock.made = "new_with_error" =>
              \A i \in 1..Len(results) : results[i] = ErrText(mock.given)
        /\ mock.made = "new" =>
              \A i \in 1..Len(results) : results[i] = OkText(mock.given)

====
